---- MODULE Spec2Model ----
(***************************************************************************)
(* Twiggy: the repository-access and commit-cache layer                    *)
(* (src/src/git/repository.rs, src/src/git/types.rs).                      *)
(*                                                                         *)
(* The native store (git2::Repository) is the environment: a commit DAG,   *)
(* branch references and a head, changed only by external git commands.    *)
(* GitRepository holds the ordered commit list (commits) and the cache     *)
(* (commit_cache); every public operation is one action.                   *)
(***************************************************************************)
EXTENDS Naturals, Sequences, FiniteSets, TLC

\* ------------------------------------------------------------------ bounds
MaxCommits == 3
MaxLimit == 2
MaxFlawed == 1
MaxClock == 1
MaxListLen == 13

\* limit.unwrap_or(1000)
DefaultLimit == 1000

Branches == {"main", "dev"}
InitialBranch == "main"
\* a native commit object may be sound, unreadable by find_commit ("corrupt"),
\* absent from the object database ("missing"), carry an author or committer
\* name that is not valid UTF-8, or carry a commit time older than its parents'
Flaws == {"corrupt", "missing", "badauthor", "badcommitter", "skew"}

VARIABLES
    nCommits,       \* the store holds the commits 1..nCommits
    parents,        \* store: commit -> sequence of parent commits
    flaw,           \* store: commit -> "ok" or one of Flaws
    refs,           \* store: branch name -> tip commit, 0 when the branch does not exist
    head,           \* store: [kind |-> "sym", name] or [kind |-> "det", oid]
    commits,        \* GitRepository.commits
    commit_cache,   \* GitRepository.commit_cache: a function from cached ids to Commit
    last,           \* the most recent call on the handle, its arguments and its result
    tracking,       \* store: branch name -> <<tip>> of its upstream, <<>> when it has none
    repo_state,     \* store: git2::RepositoryState, the operation in progress
    fs,             \* file system: the directories that exist and those holding a store
    current_repository, \* TwiggyApp.current_repository: <<>> or <<path of its handle>>
    handles,        \* the live git2::Repository handles and the step of the call in progress
    selected_commit,    \* CommitListComponent.selected_commit: <<>> or <<id>>
    shown,          \* the commits slice the component is given: the sequence of its ids
    nav             \* the most recent selection operation and the selection before it

vars == <<nCommits, parents, flaw, refs, head, commits, commit_cache, last,
          tracking, repo_state, fs, current_repository, handles, selected_commit, shown,
          nav>>
store == <<nCommits, parents, flaw, refs, head>>
\* the parts of the environment that the commit operations never read
\* the application and its commit list component
gui == <<current_repository, handles, selected_commit, shown, nav>>
aux == <<tracking, repo_state, fs, gui>>

Ids == 1..MaxCommits
Stored == 1..nCommits

\* ------------------------------------------------------------- the store
MainHead == [kind |-> "sym", name |-> InitialBranch, oid |-> 0]

Flawed == Cardinality({c \in Stored : flaw[c] # "ok"})

IsEmpty == head.kind = "sym" /\ head.name = InitialBranch /\ \A b \in Branches : refs[b] = 0

HeadOid == IF head.kind = "det" THEN head.oid ELSE refs[head.name]

Readable(c) == c \in Stored /\ flaw[c] # "missing"

ParentSet(c) == IF Readable(c) THEN {parents[c][k] : k \in 1..Len(parents[c])} ELSE {}

RECURSIVE ReachFrom(_, _)
ReachFrom(frontier, seen) ==
    IF frontier = {} THEN seen
    ELSE LET new == (UNION {ParentSet(c) : c \in frontier}) \ seen
         IN ReachFrom(new, seen \cup new)

Reach(c) == IF c = 0 THEN {} ELSE ReachFrom({c}, {c})

CommitTime(c) == IF flaw[c] = "skew" THEN 0 ELSE c

\* the commit the priority queue pops first: newest commit time, then newest object
Newest(S) == CHOOSE c \in S : \A d \in S :
                 CommitTime(d) < CommitTime(c) \/ (CommitTime(d) = CommitTime(c) /\ d <= c)

\* git2::Sort::TIME alone: a priority queue seeded with the tip, newest first
RECURSIVE TimeOnly(_, _, _)
TimeOnly(queue, S, out) ==
    IF queue = {} THEN out
    ELSE LET c == Newest(queue)
             seen == {out[k] : k \in 1..Len(out)} \cup queue
         IN TimeOnly((queue \ {c}) \cup ((ParentSet(c) \cap S) \ seen), S, Append(out, c))

SortedByTimeOnly(tip, S) == TimeOnly({tip} \cap S, S, <<>>)

\* git2::Sort::TOPOLOGICAL | git2::Sort::TIME: a commit is yielded once every child
\* of it in S has been yielded; among those ready, the newest first
RECURSIVE TopoTime(_, _)
TopoTime(S, out) ==
    IF S = {} THEN out
    ELSE LET ready == {c \in S : \A d \in S : c \notin ParentSet(d)}
             c == Newest(ready)
         IN TopoTime(S \ {c}, Append(out, c))

Sorted(tip, S) == TopoTime(S, <<>>)

\* revwalk.push(tip), revwalk.hide(hidden) (0: nothing hidden), set_sorting, iteration.
\* The walker reads every commit it is to yield before it yields the first one: a
\* commit missing from the object database makes every item of the iteration an Err.
Revwalk(tip, hidden) ==
    LET S == Reach(tip) \ Reach(hidden)
    IN [err |-> \E c \in S : ~Readable(c), oids |-> Sorted(tip, S)]

\* revwalk.push(oid) / push_head(): the pushed object must be a commit of the store
PushOk(c) == Readable(c)

\* ----------------------------------------------------------- parse_commit
Signature(c, valid, t) ==
    IF valid THEN [name |-> "author", email |-> "a@x", time |-> CommitTime(c)]
    ELSE [name |-> "Unknown", email |-> "", time |-> t]

FindCommitOk(c) == Readable(c) /\ flaw[c] # "corrupt"

\* commit.message(): the message stored with commit c, character by character
Message(c) ==
    IF c = 1 THEN <<"F", "i", "x", " ", "x", "\n", "U", "i">>
    ELSE IF c = 2 THEN <<"u", "i", " ", "f", "i", "x">>
    ELSE <<>>

\* commit.summary(): the first line of the message
Summary(c) ==
    LET m == Message(c)
        stops == {k \in 1..Len(m) : m[k] = "\n"}
    IN IF stops = {} THEN m
       ELSE SubSeq(m, 1, (CHOOSE k \in stops : \A j \in stops : k <= j) - 1)

parse_commit(c, t) ==
    IF ~FindCommitOk(c) THEN [ok |-> FALSE]
    ELSE [ok |-> TRUE,
          commit |-> [id |-> c,
                      author |-> Signature(c, flaw[c] # "badauthor", t),
                      committer |-> Signature(c, flaw[c] # "badcommitter", t),
                      message |-> Message(c),
                      summary |-> Summary(c),
                      parents |-> parents[c]]]

\* ------------------------------------------------------------- the cache
EmptyCache == [x \in {} |-> x]

CacheInsert(cache, commit) ==
    [x \in DOMAIN cache \cup {commit.id} |-> IF x = commit.id THEN commit ELSE cache[x]]

get_commit_by_id(id) == IF id \in DOMAIN commit_cache THEN <<commit_cache[id]>> ELSE <<>>

cache_size == Cardinality(DOMAIN commit_cache)

commit_count == Len(commits)

LimitOr(limit) == IF limit = <<>> THEN DefaultLimit ELSE limit[1]

\* ------------------------------------------------- identity strings (Oid)
\* hex digits of an identity string (40 in git2; the model keeps the first OidHexLen)
OidHexLen == 8

HexChars == <<"0", "1", "2", "3", "4", "5", "6", "7", "8", "9", "a", "b", "c", "d", "e", "f">>
UpperHex == <<"A", "B", "C", "D", "E", "F">>

\* the content hash of commit c, digit by digit
OidDigits(c) == [k \in 1..OidHexLen |-> IF k = 1 THEN 10 + (c % 6) ELSE (c * k + 3) % 16]

\* mutant: the string form is the abbreviated one
as_str_abbreviated(c) == [k \in 1..7 |-> HexChars[OidDigits(c)[k] + 1]]

\* CommitId::as_str: Oid::to_string, lower-case hex
as_str(c) == [k \in 1..OidHexLen |-> HexChars[OidDigits(c)[k] + 1]]

\* CommitId::short: self.0.to_string()[..7]
short(c) == SubSeq([k \in 1..OidHexLen |-> HexChars[OidDigits(c)[k] + 1]], 1, 7)

IsHex(ch) == (\E v \in 1..16 : HexChars[v] = ch) \/ (\E v \in 1..6 : UpperHex[v] = ch)

HexValue(ch) ==
    IF \E v \in 1..16 : HexChars[v] = ch
    THEN (CHOOSE v \in 1..16 : HexChars[v] = ch) - 1
    ELSE (CHOOSE v \in 1..6 : UpperHex[v] = ch) + 9

\* the commit of the model's universe that carries these digits, 0 when none does
CommitOf(digits) ==
    IF \E c \in Ids : OidDigits(c) = digits
    THEN CHOOSE c \in Ids : OidDigits(c) = digits ELSE 0

\* git2::Oid::from_str: fails on an empty string, on more digits than an Oid has and
\* on a non-hex character; a shorter string is padded with zeros
from_str(s) ==
    IF Len(s) = 0 \/ Len(s) > OidHexLen \/ \E k \in 1..Len(s) : ~IsHex(s[k])
    THEN [ok |-> FALSE]
    ELSE [ok |-> TRUE,
          oid |-> CommitOf([k \in 1..OidHexLen |-> IF k <= Len(s) THEN HexValue(s[k]) ELSE 0])]

\* --------------------------------------------------------- the operations
\* every operation yields [ok, ret, commits, cache]: its Result, the Vec<Commit> it
\* returns, and the handle's two collections when it returns
Outcome(ok, ret, cs, cache) == [ok |-> ok, ret |-> ret, commits |-> cs, cache |-> cache]

\* mutant: the bound is tested with `index > max_commits`
RECURSIVE LoadLoopOffByOne(_, _, _, _, _, _)
LoadLoopOffByOne(w, index, max, t, acc, cache) ==
    IF ~w.err /\ index >= Len(w.oids) THEN [ok |-> TRUE, acc |-> acc, cache |-> cache]
    ELSE IF index > max THEN [ok |-> TRUE, acc |-> acc, cache |-> cache]
    ELSE IF w.err THEN [ok |-> FALSE, acc |-> acc, cache |-> cache]
    ELSE LET p == parse_commit(w.oids[index + 1], t)
         IN IF p.ok
            THEN LoadLoopOffByOne(w, index + 1, max, t, Append(acc, p.commit),
                                  CacheInsert(cache, p.commit))
            ELSE LoadLoopOffByOne(w, index + 1, max, t, acc, cache)

\* mutant: a commit that fails to parse ends the load with its error (parse_commit(oid)?)
RECURSIVE LoadLoopParseFatal(_, _, _, _, _, _)
LoadLoopParseFatal(w, index, max, t, acc, cache) ==
    IF ~w.err /\ index >= Len(w.oids) THEN [ok |-> TRUE, acc |-> acc, cache |-> cache]
    ELSE IF index >= max THEN [ok |-> TRUE, acc |-> acc, cache |-> cache]
    ELSE IF w.err THEN [ok |-> FALSE, acc |-> acc, cache |-> cache]
    ELSE LET p == parse_commit(w.oids[index + 1], t)
         IN IF p.ok
            THEN LoadLoopParseFatal(w, index + 1, max, t, Append(acc, p.commit),
                                    CacheInsert(cache, p.commit))
            ELSE [ok |-> FALSE, acc |-> acc, cache |-> cache]

\* the for loop of load_commits over revwalk.enumerate(), from `index`
RECURSIVE LoadLoop(_, _, _, _, _, _)
LoadLoop(w, index, max, t, acc, cache) ==
    IF ~w.err /\ index >= Len(w.oids) THEN [ok |-> TRUE, acc |-> acc, cache |-> cache]
    ELSE IF index >= max THEN [ok |-> TRUE, acc |-> acc, cache |-> cache]
    ELSE IF w.err THEN [ok |-> FALSE, acc |-> acc, cache |-> cache]
    ELSE LET p == parse_commit(w.oids[index + 1], t)
         IN IF p.ok
            THEN LoadLoop(w, index + 1, max, t, Append(acc, p.commit),
                          CacheInsert(cache, p.commit))
            ELSE LoadLoop(w, index + 1, max, t, acc, cache)

\* mutant: load_commits without the is_empty() check
LoadCommitsNoEmptyCheck(limit, t, cs, cache) ==
    IF ~PushOk(HeadOid) THEN Outcome(FALSE, <<>>, cs, cache)
    ELSE LET r == LoadLoop(Revwalk(HeadOid, 0), 0, LimitOr(limit), t, <<>>, cache)
         IN IF r.ok THEN Outcome(TRUE, <<>>, r.acc, r.cache)
            ELSE Outcome(FALSE, <<>>, cs, r.cache)

LoadCommits(limit, t, cs, cache) ==
    IF IsEmpty THEN Outcome(TRUE, <<>>, cs, cache)
    ELSE IF ~PushOk(HeadOid) THEN Outcome(FALSE, <<>>, cs, cache)
    ELSE LET r == LoadLoop(Revwalk(HeadOid, 0), 0, LimitOr(limit), t, <<>>, cache)
         IN IF r.ok THEN Outcome(TRUE, <<>>, r.acc, r.cache)
            ELSE Outcome(FALSE, <<>>, cs, r.cache)

\* mutant: only the branch information is refreshed, the ordered list is kept
RefreshCommitsKeepsList(limit, t, cs, cache) == Outcome(TRUE, <<>>, cs, cache)

\* refresh_commits: self.commits.clear(), then load_commits(limit)
RefreshCommits(limit, t, cs, cache) == LoadCommits(limit, t, <<>>, cache)

\* the for loop shared by load_commits_lazy (from index `start`), load_commits_for_branch
\* and load_commits_range: cache hit or parse_commit(oid)?
RECURSIVE WindowLoop(_, _, _, _, _, _, _)
WindowLoop(w, index, start, end, t, acc, cache) ==
    IF ~w.err /\ index >= Len(w.oids) THEN [ok |-> TRUE, acc |-> acc, cache |-> cache]
    ELSE IF index < start THEN WindowLoop(w, index + 1, start, end, t, acc, cache)
    ELSE IF index >= end THEN [ok |-> TRUE, acc |-> acc, cache |-> cache]
    ELSE IF w.err THEN [ok |-> FALSE, acc |-> acc, cache |-> cache]
    ELSE LET oid == w.oids[index + 1]
         IN IF oid \in DOMAIN cache
            THEN WindowLoop(w, index + 1, start, end, t, Append(acc, cache[oid]), cache)
            ELSE LET p == parse_commit(oid, t)
                 IN IF p.ok
                    THEN WindowLoop(w, index + 1, start, end, t, Append(acc, p.commit),
                                    CacheInsert(cache, p.commit))
                    ELSE [ok |-> FALSE, acc |-> acc, cache |-> cache]

\* mutant: the window is also stored as the ordered list
WindowReplacesList(w, start, end, t, cs, cache) ==
    LET r == WindowLoop(w, 0, start, end, t, <<>>, cache)
    IN IF r.ok THEN Outcome(TRUE, r.acc, r.acc, r.cache) ELSE Outcome(FALSE, <<>>, cs, r.cache)

Window(w, start, end, t, cs, cache) ==
    LET r == WindowLoop(w, 0, start, end, t, <<>>, cache)
    IN IF r.ok THEN Outcome(TRUE, r.acc, cs, r.cache) ELSE Outcome(FALSE, <<>>, cs, r.cache)

Min(a, b) == IF a < b THEN a ELSE b

LoadCommitsLazy(start, count, t, cs, cache) ==
    IF start < Len(cs)
    THEN Outcome(TRUE, SubSeq(cs, start + 1, Min(start + count, Len(cs))), cs, cache)
    ELSE IF ~PushOk(HeadOid) THEN Outcome(FALSE, <<>>, cs, cache)
    ELSE Window(Revwalk(HeadOid, 0), start, start + count, t, cs, cache)

\* mutant: the walk starts at head (push_head) instead of the branch's tip
LoadCommitsForBranchFromHead(branch, limit, t, cs, cache) ==
    IF branch \notin Branches \/ refs[branch] = 0 THEN Outcome(FALSE, <<>>, cs, cache)
    ELSE IF ~PushOk(HeadOid) THEN Outcome(FALSE, <<>>, cs, cache)
    ELSE Window(Revwalk(HeadOid, 0), 0, LimitOr(limit), t, cs, cache)

\* refname_to_id("refs/heads/<branch>"), push(oid), the loop
LoadCommitsForBranch(branch, limit, t, cs, cache) ==
    IF branch \notin Branches \/ refs[branch] = 0 THEN Outcome(FALSE, <<>>, cs, cache)
    ELSE IF ~PushOk(refs[branch]) THEN Outcome(FALSE, <<>>, cs, cache)
    ELSE Window(Revwalk(refs[branch], 0), 0, LimitOr(limit), t, cs, cache)

\* mutant: a lower endpoint that cannot be hidden is ignored
LoadCommitsRangeHideIgnored(from, to, limit, t, cs, cache) ==
    LET f == from_str(from)
        g == from_str(to)
    IN IF ~f.ok \/ ~g.ok THEN Outcome(FALSE, <<>>, cs, cache)
       ELSE IF ~PushOk(g.oid) THEN Outcome(FALSE, <<>>, cs, cache)
       ELSE Window(Revwalk(g.oid, IF PushOk(f.oid) THEN f.oid ELSE 0), 0, LimitOr(limit),
                   t, cs, cache)

LoadCommitsRange(from, to, limit, t, cs, cache) ==
    LET f == from_str(from)
        g == from_str(to)
    IN IF ~f.ok \/ ~g.ok THEN Outcome(FALSE, <<>>, cs, cache)
       ELSE IF ~PushOk(g.oid) \/ ~PushOk(f.oid) THEN Outcome(FALSE, <<>>, cs, cache)
       ELSE Window(Revwalk(g.oid, f.oid), 0, LimitOr(limit), t, cs, cache)

\* find_commit_by_hash: [ok, ret] with ret the Option<Commit> as a sequence
FindCommitByHash(hash, t, cache) ==
    LET h == from_str(hash)
    IN IF ~h.ok THEN [ok |-> FALSE, ret |-> <<>>]
       ELSE IF h.oid \in DOMAIN cache THEN [ok |-> TRUE, ret |-> <<cache[h.oid]>>]
       ELSE IF ~Readable(h.oid) THEN [ok |-> TRUE, ret |-> <<>>]
       ELSE LET p == parse_commit(h.oid, t)
            IN IF p.ok THEN [ok |-> TRUE, ret |-> <<p.commit>>] ELSE [ok |-> FALSE, ret |-> <<>>]

\* the characters of the strings a Signature carries
Chars(str) ==
    IF str = "author" THEN <<"a", "u", "t", "h", "o", "r">>
    ELSE IF str = "a@x" THEN <<"a", "@", "x">>
    ELSE IF str = "Unknown" THEN <<"U", "n", "k", "n", "o", "w", "n">>
    ELSE <<>>

UpperCase == <<"A", "B", "C", "D", "E", "F", "I", "U", "X">>
LowerCase == <<"a", "b", "c", "d", "e", "f", "i", "u", "x">>

\* str::to_lowercase
to_lowercase(s) ==
    [k \in 1..Len(s) |-> IF \E v \in 1..Len(UpperCase) : UpperCase[v] = s[k]
                         THEN LowerCase[CHOOSE v \in 1..Len(UpperCase) : UpperCase[v] = s[k]]
                         ELSE s[k]]

\* str::contains
contains(s, pat) ==
    \E i \in 0..Len(s) : i + Len(pat) <= Len(s) /\ SubSeq(s, i + 1, i + Len(pat)) = pat

\* str::starts_with
starts_with(s, pat) == Len(pat) <= Len(s) /\ SubSeq(s, 1, Len(pat)) = pat

\* mutant: the commit's text is compared without being lower-cased
SearchCommitsCaseSensitive(query, cs) ==
    LET query_lower == to_lowercase(query)
        Hit(commit) == \/ contains(commit.message, query_lower)
                       \/ contains(commit.summary, query_lower)
                       \/ contains(Chars(commit.author.name), query_lower)
                       \/ contains(Chars(commit.author.email), query_lower)
                       \/ starts_with(as_str(commit.id), query_lower)
    IN SelectSeq(cs, Hit)

\* search_commits: the filter over self.commits
SearchCommits(query, cs) ==
    LET query_lower == to_lowercase(query)
        Hit(commit) == \/ contains(to_lowercase(commit.message), query_lower)
                       \/ contains(to_lowercase(commit.summary), query_lower)
                       \/ contains(to_lowercase(Chars(commit.author.name)), query_lower)
                       \/ contains(to_lowercase(Chars(commit.author.email)), query_lower)
                       \/ starts_with(as_str(commit.id), query_lower)
    IN SelectSeq(cs, Hit)

\* format!("{:.7}", oid): the identity string cut to 7 characters
ShortLen == 7

short_id(c) == SubSeq(as_str(c), 1, Min(ShortLen, OidHexLen))

\* branch.upstream(): the remote-tracking reference of a local branch, when one is
\* configured and exists
HasUpstream(b) == tracking[b] # <<>>

UpstreamName(b) == IF b = "main" THEN "origin/main" ELSE "origin/dev"

\* git2::Repository::graph_ahead_behind(local, upstream): both histories are read
GraphAheadBehind(local, upstream) ==
    IF \E c \in Reach(local) \cup Reach(upstream) : ~Readable(c) THEN [ok |-> FALSE]
    ELSE [ok |-> TRUE,
          ahead |-> Cardinality(Reach(local) \ Reach(upstream)),
          behind |-> Cardinality(Reach(upstream) \ Reach(local))]

\* mutant: the two counts are returned in the other order
calculate_behind_ahead(b) ==
    IF HasUpstream(b)
    THEN LET g == GraphAheadBehind(refs[b], tracking[b][1])
         IN IF g.ok THEN <<g.behind, g.ahead>> ELSE <<0, 0>>
    ELSE <<0, 0>>

\* calculate_ahead_behind: <<ahead, behind>>
calculate_ahead_behind(b) ==
    IF HasUpstream(b)
    THEN LET g == GraphAheadBehind(refs[b], tracking[b][1])
         IN IF g.ok THEN <<g.ahead, g.behind>> ELSE <<0, 0>>
    ELSE <<0, 0>>

BranchInfo(name, upstream, ahead, behind, state) ==
    [ok |-> TRUE, name |-> name, upstream |-> upstream, ahead |-> ahead, behind |-> behind,
     state |-> state]

\* mutant: an unborn head is an error like any other failure of repo.head()
get_branch_info_unborn_is_error ==
    IF head.kind = "sym" /\ refs[head.name] = 0
    THEN [ok |-> FALSE, name |-> <<>>, upstream |-> <<>>, ahead |-> 0, behind |-> 0,
          state |-> "Unborn"]
    ELSE IF head.kind = "det"
    THEN BranchInfo(<<"HEAD detached at ">> \o short_id(head.oid), <<>>, 0, 0, "DetachedHead")
    ELSE LET ab == calculate_ahead_behind(head.name)
         IN BranchInfo(<<head.name>>,
                       IF HasUpstream(head.name) THEN <<UpstreamName(head.name)>> ELSE <<>>,
                       ab[1], ab[2], "Normal")

\* get_branch_info: [ok, name, upstream, ahead, behind, state]; the name is the
\* sequence of the pieces that format! joins
get_branch_info ==
    IF head.kind = "sym" /\ refs[head.name] = 0
    THEN BranchInfo(<<"main">>, <<>>, 0, 0, "Unborn")
    ELSE IF head.kind = "det"
    THEN BranchInfo(<<"HEAD detached at ">> \o short_id(head.oid), <<>>, 0, 0, "DetachedHead")
    ELSE LET ab == calculate_ahead_behind(head.name)
         IN BranchInfo(<<head.name>>,
                       IF HasUpstream(head.name) THEN <<UpstreamName(head.name)>> ELSE <<>>,
                       ab[1], ab[2], "Normal")

is_empty == IsEmpty

\* ------------------------------------------------------ inputs of the calls
Limits == {<<>>} \cup {<<n>> : n \in 0..MaxLimit}
Offsets == 0..MaxLimit
BranchInputs == Branches \cup {"nosuch"}
\* identity strings: every commit of the universe, a well-formed string that names
\* no object and a non-hex string
HashInputs == {as_str(c) : c \in Ids} \cup {<<"f", "f">>, <<"z", "z">>}
\* what chrono::Utc::now() may return during a call
Clock == 0..MaxClock
\* the clock is read only for the placeholder of an unrecoverable signature
Stamps == IF \E c \in Stored : flaw[c] \in {"badauthor", "badcommitter"} THEN Clock ELSE {0}
SmallLimits == {<<>>, <<1>>}
\* search text: empty, a word of a message in another case, part of a placeholder
\* name, part of an email in another case, the first digit of an identity string in
\* lower and in upper case
Queries == {<<>>, <<"F", "I", "X">>, <<"n", "k">>, <<"@", "X">>, <<"b">>, <<"B">>}

NoCall == [op |-> "none", ok |-> TRUE, ret |-> <<>>, limit |-> <<>>, start |-> 0, count |-> 0,
           from |-> <<>>, to |-> <<>>, branch |-> "", path |-> "", pre_commits |-> <<>>,
           pre_cache |-> EmptyCache]

Call(op, r) == [NoCall EXCEPT !.op = op, !.ok = r.ok, !.ret = r.ret,
                              !.pre_commits = commits, !.pre_cache = commit_cache]

Idle == last.op = "none"

\* ------------------------------------------------------------------- Init
Paths == {"/w", "/w/a", "/w/a/b", "/w/c"}

\* no native handle is live and no call is in progress
NoHandles == [live |-> [p \in Paths |-> 0], pc |-> "idle", path |-> ""]

NoNav == [op |-> "none", pre |-> <<>>]

\* GitRepository::open on a freshly initialized store
Init ==
    /\ nCommits = 0
    /\ parents = [c \in Ids |-> <<>>]
    /\ flaw = [c \in Ids |-> "ok"]
    /\ refs = [b \in Branches |-> 0]
    /\ head = MainHead
    /\ commits = <<>>
    /\ commit_cache = EmptyCache
    /\ last = NoCall
    /\ tracking = [b \in Branches |-> <<>>]
    /\ repo_state = "Clean"
    /\ fs = [exists |-> {}, stores |-> {}]
    /\ current_repository = <<>>
    /\ handles = NoHandles
    /\ selected_commit = <<>>
    /\ shown = <<>>
    /\ nav = NoNav

\* ---------------------------------------------- the store's environment
\* Bounds on the environment: at most MaxCommits commits and MaxFlawed flawed objects;
\* the head leaves the initial branch at most once; a store with a flawed object keeps
\* its head on the initial branch.
\* git commit / git merge: a new commit on top of head, which moves with it
ExtCommit(second, f) ==
    /\ Idle
    /\ nCommits < MaxCommits
    /\ second = 0 \/ (HeadOid # 0 /\ second # HeadOid)
    /\ f = "ok" \/ (Flawed < MaxFlawed /\ head = MainHead)
    /\ LET c == nCommits + 1
       IN /\ nCommits' = c
          /\ parents' = [parents EXCEPT ![c] = IF HeadOid = 0 THEN <<>>
                                               ELSE IF second = 0 THEN <<HeadOid>>
                                               ELSE <<HeadOid, second>>]
          /\ flaw' = [flaw EXCEPT ![c] = f]
          /\ IF head.kind = "sym"
             THEN refs' = [refs EXCEPT ![head.name] = c] /\ head' = head
             ELSE refs' = refs /\ head' = [head EXCEPT !.oid = c]
    /\ UNCHANGED <<commits, commit_cache, last>>
    /\ UNCHANGED aux

\* git checkout <branch> (an orphan branch when it does not exist) / --detach <commit>
ExtCheckout(h) ==
    /\ Idle
    /\ head = MainHead
    /\ Flawed = 0
    /\ h # head
    /\ head' = h
    /\ UNCHANGED <<nCommits, parents, flaw, refs, commits, commit_cache, last>>
    /\ UNCHANGED aux

\* ------------------------------------------------------------ the calls
Returns(r, call) ==
    /\ Idle
    /\ commits' = r.commits
    /\ commit_cache' = r.cache
    /\ last' = call
    /\ UNCHANGED <<nCommits, parents, flaw, refs, head>>
    /\ UNCHANGED aux

load_commits(limit, now) ==
    LET r == LoadCommits(limit, now, commits, commit_cache)
    IN Returns(r, [Call("load_commits", r) EXCEPT !.limit = limit])

refresh_commits(limit, now) ==
    LET r == RefreshCommits(limit, now, commits, commit_cache)
    IN Returns(r, [Call("refresh_commits", r) EXCEPT !.limit = limit])

load_commits_lazy(start, count, now) ==
    LET r == LoadCommitsLazy(start, count, now, commits, commit_cache)
    IN Returns(r, [Call("load_commits_lazy", r) EXCEPT !.start = start, !.count = count])

load_commits_for_branch(branch, limit, now) ==
    LET r == LoadCommitsForBranch(branch, limit, now, commits, commit_cache)
    IN Returns(r, [Call("load_commits_for_branch", r) EXCEPT !.branch = branch, !.limit = limit])

load_commits_range(from, to, limit, now) ==
    LET r == LoadCommitsRange(from, to, limit, now, commits, commit_cache)
    IN Returns(r, [Call("load_commits_range", r)
                       EXCEPT !.from = from, !.to = to, !.limit = limit])

find_commit_by_hash(hash, now) ==
    LET r == FindCommitByHash(hash, now, commit_cache)
    IN /\ Idle
       /\ last' = [Call("find_commit_by_hash", r) EXCEPT !.from = hash]
       /\ UNCHANGED <<nCommits, parents, flaw, refs, head, commits, commit_cache>>
       /\ UNCHANGED aux

search_commits(query) ==
    /\ Idle
    /\ last' = [Call("search_commits", [ok |-> TRUE, ret |-> SearchCommits(query, commits)])
                    EXCEPT !.from = query]
    /\ UNCHANGED <<nCommits, parents, flaw, refs, head, commits, commit_cache>>
    /\ UNCHANGED aux

clear_commit_cache ==
    /\ Idle
    /\ commit_cache' = EmptyCache
    /\ last' = Call("clear_commit_cache", [ok |-> TRUE, ret |-> <<>>])
    /\ UNCHANGED <<nCommits, parents, flaw, refs, head, commits>>
    /\ UNCHANGED aux

\* the caller is done with the value the call returned
Return ==
    /\ ~Idle
    /\ last' = NoCall
    /\ UNCHANGED <<nCommits, parents, flaw, refs, head, commits, commit_cache>>
    /\ UNCHANGED aux

Heads == {[kind |-> "sym", name |-> b, oid |-> 0] : b \in Branches}
             \cup {[kind |-> "det", name |-> "", oid |-> c] : c \in Stored}

Next ==
    \/ \E second \in {0} \cup Stored, f \in {"ok"} \cup Flaws : ExtCommit(second, f)
    \/ \E h \in Heads : ExtCheckout(h)
    \/ \E limit \in Limits, now \in Stamps : load_commits(limit, now)
    \/ \E limit \in Limits, now \in Stamps : refresh_commits(limit, now)
    \/ \E start \in Offsets, count \in Offsets, now \in Stamps :
           load_commits_lazy(start, count, now)
    \/ \E branch \in BranchInputs, limit \in SmallLimits, now \in Stamps :
           load_commits_for_branch(branch, limit, now)
    \/ \E from \in HashInputs, to \in HashInputs, limit \in SmallLimits, now \in Stamps :
           load_commits_range(from, to, limit, now)
    \/ \E hash \in HashInputs, now \in Stamps : find_commit_by_hash(hash, now)
    \/ \E query \in Queries : search_commits(query)
    \/ clear_commit_cache
    \/ Return

Spec == Init /\ [][Next]_vars

\* ----------------------------------------------------------------- detect
\* the directories of the model's file system: /w, /w/a, /w/a/b and /w/c
Parent(p) == IF p = "/w/a" \/ p = "/w/c" THEN "/w" ELSE IF p = "/w/a/b" THEN "/w/a" ELSE ""

\* git2::Repository::open(path): the store of `path` itself; no search in the
\* directories above it
RepositoryOpen(path) == path \in fs.exists /\ path \in fs.stores

\* GitRepository::open(path): Repository::open, then get_current_branch_info, which
\* returns Ok on every branch of its match
Open(path) == RepositoryOpen(path)

\* GitRepository::detect: [ok, ret], ret the Option<Self> as <<>> or <<path of the handle>>
Detect(path) ==
    IF path \notin fs.exists THEN [ok |-> TRUE, ret |-> <<>>]
    ELSE IF RepositoryOpen(path)
    THEN IF Open(path) THEN [ok |-> TRUE, ret |-> <<path>>] ELSE [ok |-> TRUE, ret |-> <<>>]
    ELSE [ok |-> TRUE, ret |-> <<>>]

\* mkdir: a directory appears under an existing one
ExtMkdir(p) ==
    /\ Idle
    /\ p \notin fs.exists
    /\ Parent(p) = "" \/ Parent(p) \in fs.exists
    /\ fs' = [fs EXCEPT !.exists = @ \cup {p}]
    /\ UNCHANGED <<nCommits, parents, flaw, refs, head, commits, commit_cache, last,
                   tracking, repo_state, gui>>

\* git init in an existing directory
ExtGitInit(p) ==
    /\ Idle
    /\ p \in fs.exists
    /\ p \notin fs.stores
    /\ fs' = [fs EXCEPT !.stores = @ \cup {p}]
    /\ UNCHANGED <<nCommits, parents, flaw, refs, head, commits, commit_cache, last,
                   tracking, repo_state, gui>>

detect(path) ==
    /\ Idle
    /\ last' = [Call("detect", Detect(path)) EXCEPT !.path = path]
    /\ UNCHANGED <<nCommits, parents, flaw, refs, head, commits, commit_cache>>
    /\ UNCHANGED aux

DetectNext ==
    \/ \E p \in Paths : ExtMkdir(p)
    \/ \E p \in Paths : ExtGitInit(p)
    \/ \E path \in Paths : detect(path)
    \/ Return

DetectSpec == Init /\ [][DetectNext]_vars

\* --------------------------------------------------------------- validate
\* git2::RepositoryState
RepositoryStates == {"Clean", "Merge", "Revert", "RevertSequence", "CherryPick",
                     "CherryPickSequence", "Bisect", "Rebase", "RebaseInteractive",
                     "RebaseMerge", "ApplyMailbox", "ApplyMailboxOrRebase"}

Healthy == [kind |-> "Healthy", name |-> ""]
InOperation(name) == [kind |-> "InOperation", name |-> name]
Unknown == [kind |-> "Unknown", name |-> ""]

\* GitRepository::validate: [ok, ret], ret the RepositoryHealth
Validate ==
    IF IsEmpty THEN [ok |-> TRUE, ret |-> <<Healthy>>]
    ELSE [ok |-> TRUE,
          ret |-> << CASE repo_state = "Clean" -> Healthy
                       [] repo_state = "Merge" -> InOperation("merge")
                       [] repo_state = "Revert" -> InOperation("revert")
                       [] repo_state = "CherryPick" -> InOperation("cherry-pick")
                       [] repo_state = "Bisect" -> InOperation("bisect")
                       [] repo_state = "Rebase" -> InOperation("rebase")
                       [] repo_state = "RebaseInteractive" -> InOperation("interactive rebase")
                       [] repo_state = "RebaseMerge" -> InOperation("rebase merge")
                       [] repo_state = "ApplyMailbox" -> InOperation("apply mailbox")
                       [] repo_state = "ApplyMailboxOrRebase" ->
                              InOperation("apply mailbox or rebase")
                       [] OTHER -> Unknown >>]

\* git merge / revert / cherry-pick / bisect / rebase / am stops part-way, on a store
\* whose head resolves to a commit
ExtBegin(op) ==
    /\ Idle
    /\ repo_state = "Clean"
    /\ op # "Clean"
    /\ HeadOid # 0
    /\ repo_state' = op
    /\ UNCHANGED <<nCommits, parents, flaw, refs, head, commits, commit_cache, last,
                   tracking, fs, gui>>

\* the operation in progress is completed or aborted
ExtFinish ==
    /\ Idle
    /\ repo_state # "Clean"
    /\ repo_state' = "Clean"
    /\ UNCHANGED <<nCommits, parents, flaw, refs, head, commits, commit_cache, last,
                   tracking, fs, gui>>

validate ==
    /\ Idle
    /\ last' = Call("validate", Validate)
    /\ UNCHANGED <<nCommits, parents, flaw, refs, head, commits, commit_cache>>
    /\ UNCHANGED aux

HealthNext ==
    \/ \E second \in {0} \cup Stored, f \in {"ok"} \cup Flaws : ExtCommit(second, f)
    \/ \E op \in RepositoryStates : ExtBegin(op)
    \/ ExtFinish
    \/ \E limit \in SmallLimits, now \in Stamps : load_commits(limit, now)
    \/ validate
    \/ Return

HealthSpec == Init /\ [][HealthNext]_vars

\* -------------------------------------------------------- get_branch_info
\* Bounds on the environment: a commit missing from the object database arrives by a
\* fetch only, and no local commit takes a history with a missing commit as a parent.
\* git commit / git merge on head
ExtLocalCommit(second) ==
    /\ \A c \in Reach(second) \cup Reach(HeadOid) : Readable(c)
    /\ ExtCommit(second, "ok")

\* git fetch: a new commit on top of `base` (0: a root) becomes the tip of branch b's
\* upstream
ExtFetch(b, base, f) ==
    /\ Idle
    /\ nCommits < MaxCommits
    /\ refs[b] # 0
    /\ f = "ok" \/ Flawed < MaxFlawed
    /\ LET c == nCommits + 1
       IN /\ nCommits' = c
          /\ parents' = [parents EXCEPT ![c] = IF base = 0 THEN <<>> ELSE <<base>>]
          /\ flaw' = [flaw EXCEPT ![c] = f]
          /\ tracking' = [tracking EXCEPT ![b] = <<c>>]
    /\ UNCHANGED <<refs, head, commits, commit_cache, last, repo_state, fs, gui>>

\* git branch --set-upstream-to / --unset-upstream, git push
ExtSetUpstream(b, up) ==
    /\ Idle
    /\ refs[b] # 0
    /\ up # tracking[b]
    /\ tracking' = [tracking EXCEPT ![b] = up]
    /\ UNCHANGED <<nCommits, parents, flaw, refs, head, commits, commit_cache, last,
                   repo_state, fs, gui>>

get_branch_info_call ==
    /\ Idle
    /\ last' = Call("get_branch_info",
                    [ok |-> get_branch_info.ok,
                     ret |-> IF get_branch_info.ok THEN <<get_branch_info>> ELSE <<>>])
    /\ UNCHANGED <<nCommits, parents, flaw, refs, head, commits, commit_cache>>
    /\ UNCHANGED aux

BranchNext ==
    \/ \E second \in {0} \cup Stored : ExtLocalCommit(second)
    \/ \E h \in Heads : ExtCheckout(h)
    \/ \E b \in Branches, base \in {0} \cup Stored, f \in {"ok", "missing"} : ExtFetch(b, base, f)
    \/ \E b \in Branches, up \in {<<>>} \cup {<<c>> : c \in Stored} : ExtSetUpstream(b, up)
    \/ get_branch_info_call
    \/ Return

BranchSpec == Init /\ [][BranchNext]_vars

\* ------------------------------------------------------------ TwiggyError
MaxFrames == 3

ErrorKinds == {"Git", "Io", "Config", "Ui", "Application", "Serialization", "FileSystem",
               "Network", "Validation"}

\* the text an error is built with (message, operation, path or field)
ErrorTexts == {"", "Repository not found", "file read"}

\* the kinds that wrap a native error as their source
WithSource == {"Git", "Io", "Serialization", "FileSystem"}

TwiggyError(kind, text) == [kind |-> kind, text |-> text, source |-> kind \in WithSource]

\* impl From<git2::Error>, From<std::io::Error>, From<serde_json::Error> for TwiggyError
From(native) ==
    IF native = "git2::Error" THEN TwiggyError("Git", "Repository not found")
    ELSE IF native = "std::io::Error" THEN TwiggyError("Io", "unknown")
    ELSE TwiggyError("Serialization", "JSON processing")

\* mutant: the FileSystem kind shares the code of the Io kind
error_code_shared(e) ==
    CASE e.kind = "Git" -> 1000
      [] e.kind = "Io" -> 2000
      [] e.kind = "Config" -> 3000
      [] e.kind = "Ui" -> 4000
      [] e.kind = "Application" -> 5000
      [] e.kind = "Serialization" -> 6000
      [] e.kind = "FileSystem" -> 2000
      [] e.kind = "Network" -> 8000
      [] e.kind = "Validation" -> 9000

error_code(e) ==
    CASE e.kind = "Git" -> 1000
      [] e.kind = "Io" -> 2000
      [] e.kind = "Config" -> 3000
      [] e.kind = "Ui" -> 4000
      [] e.kind = "Application" -> 5000
      [] e.kind = "Serialization" -> 6000
      [] e.kind = "FileSystem" -> 7000
      [] e.kind = "Network" -> 8000
      [] e.kind = "Validation" -> 9000

is_recoverable(e) ==
    CASE e.kind = "Git" -> FALSE
      [] e.kind = "Io" -> TRUE
      [] e.kind = "Config" -> TRUE
      [] e.kind = "Ui" -> TRUE
      [] e.kind = "Application" -> FALSE
      [] e.kind = "Serialization" -> TRUE
      [] e.kind = "FileSystem" -> TRUE
      [] e.kind = "Network" -> TRUE
      [] e.kind = "Validation" -> TRUE

\* suggested_action: the Option<String> as <<>> or <<text>>
suggested_action(e) ==
    CASE e.kind = "Git" -> <<"Check repository status and try again">>
      [] e.kind = "Io" -> <<"Verify file permissions and disk space">>
      [] e.kind = "Config" -> <<"Reset to default configuration">>
      [] e.kind = "Ui" -> <<"Restart the application">>
      [] e.kind = "Application" -> <<"Report this issue to support">>
      [] e.kind = "Serialization" -> <<"Check file format and try again">>
      [] e.kind = "FileSystem" -> <<"Ensure file exists and is accessible">>
      [] e.kind = "Network" -> <<"Check network connection and retry">>
      [] e.kind = "Validation" -> <<"Correct the input and try again">>

\* an error on its way up the call stack: the value, the number of callers it has been
\* propagated through and the code it had where it was raised
Raised(e) == [op |-> "error", ok |-> FALSE, ret |-> <<e>>, frames |-> 0,
              raised_code |-> error_code(e)]

\* Err(TwiggyError::Kind { .. }) is returned
ErrRaise(kind, text) ==
    /\ Idle
    /\ last' = Raised(TwiggyError(kind, text))
    /\ UNCHANGED <<nCommits, parents, flaw, refs, head, commits, commit_cache>>
    /\ UNCHANGED aux

\* a native error is converted by `?`
ErrFrom(native) ==
    /\ Idle
    /\ last' = Raised(From(native))
    /\ UNCHANGED <<nCommits, parents, flaw, refs, head, commits, commit_cache>>
    /\ UNCHANGED aux

\* `?` in a caller that returns Result<T>: the error goes up as it is
ErrPropagate ==
    /\ last.op = "error"
    /\ last.frames < MaxFrames
    /\ last' = [last EXCEPT !.frames = @ + 1]
    /\ UNCHANGED <<nCommits, parents, flaw, refs, head, commits, commit_cache>>
    /\ UNCHANGED aux

ErrorNext ==
    \/ \E kind \in ErrorKinds, text \in ErrorTexts : ErrRaise(kind, text)
    \/ \E native \in {"git2::Error", "std::io::Error", "serde_json::Error"} : ErrFrom(native)
    \/ ErrPropagate
    \/ Return

ErrorSpec == Init /\ [][ErrorNext]_vars

\* ------------------------------------------- the native handles of a path
\* everything but the application's handle and the live native handles
outside == <<store, commits, commit_cache, last, tracking, repo_state, fs,
             selected_commit, shown, nav>>

\* a git2::Repository is created / dropped
Acquire(live, path) == [live EXCEPT ![path] = @ + 1]
Release(live, path) == [live EXCEPT ![path] = @ - 1]

\* GitRepository::detect, up to the arm of `match Repository::open(path)`: the pattern
\* Ok(_) binds nothing, so the handle stays in the scrutinee's temporary, which is
\* dropped at the end of the match. (On a path that does not exist or holds no store
\* detect returns None and no handle is created.) The library is called directly by
\* programs that run no TwiggyApp.
detect_probe(path) ==
    /\ handles.pc = "idle"
    /\ current_repository = <<>>
    /\ path \in fs.exists
    /\ RepositoryOpen(path)
    /\ handles' = [live |-> Acquire(handles.live, path), pc |-> "detect_matched", path |-> path]
    /\ UNCHANGED <<outside, current_repository>>

\* GitRepository::detect, the arm Ok(_): Self::open(path)
detect_open ==
    /\ handles.pc = "detect_matched"
    /\ handles' = [handles EXCEPT !.live = IF Open(handles.path) THEN Acquire(@, handles.path) ELSE @,
                                  !.pc = IF Open(handles.path) THEN "detect_some" ELSE "detect_none"]
    /\ UNCHANGED <<outside, current_repository>>

\* GitRepository::detect, the end of the match: the temporary is dropped and
\* Some(repo) or None goes to the caller
detect_return ==
    /\ handles.pc \in {"detect_some", "detect_none"}
    /\ handles' = [handles EXCEPT !.live = Release(@, handles.path),
                                  !.pc = IF handles.pc = "detect_some" THEN "held" ELSE "idle"]
    /\ UNCHANGED <<outside, current_repository>>

\* GitRepository::open called directly: the handle goes to the caller
open(path) ==
    /\ handles.pc = "idle"
    /\ current_repository = <<>>
    /\ Open(path)
    /\ handles' = [live |-> Acquire(handles.live, path), pc |-> "held", path |-> path]
    /\ UNCHANGED <<outside, current_repository>>

\* the caller of detect or open drops the GitRepository it was given
drop ==
    /\ handles.pc = "held"
    /\ handles' = [handles EXCEPT !.live = Release(@, handles.path), !.pc = "idle"]
    /\ UNCHANGED <<outside, current_repository>>

\* TwiggyApp::open_repository_path up to `Ok(repo) =>`: the path exists, is a directory
\* and GitRepository::open succeeds (otherwise an error is shown and nothing changes)
open_repository_path(path) ==
    /\ handles.pc = "idle"
    /\ path \in fs.exists
    /\ Open(path)
    /\ handles' = [live |-> Acquire(handles.live, path), pc |-> "app_opened", path |-> path]
    /\ UNCHANGED <<outside, current_repository>>

\* TwiggyApp::open_repository_path, `self.current_repository = Some(repo)`: the
\* assignment drops the GitRepository the field held
open_repository_path_assign ==
    /\ handles.pc = "app_opened"
    /\ current_repository' = <<handles.path>>
    /\ handles' = [handles EXCEPT !.live = IF current_repository = <<>> THEN @
                                           ELSE Release(@, current_repository[1]),
                                  !.pc = "idle"]
    /\ UNCHANGED outside

\* TwiggyApp::close_repository
close_repository ==
    /\ handles.pc = "idle"
    /\ current_repository # <<>>
    /\ current_repository' = <<>>
    /\ handles' = [handles EXCEPT !.live = Release(@, current_repository[1])]
    /\ UNCHANGED outside

HandleNext ==
    \/ \E p \in Paths : ExtMkdir(p)
    \/ \E p \in Paths : ExtGitInit(p)
    \/ \E path \in Paths : detect_probe(path)
    \/ detect_open
    \/ detect_return
    \/ \E path \in Paths : open(path)
    \/ drop
    \/ \E path \in Paths : open_repository_path(path)
    \/ open_repository_path_assign
    \/ close_repository

HandleSpec == Init /\ [][HandleNext]_vars

\* ------------------------------------------------- CommitListComponent
\* everything but the component
offscreen == <<store, commits, commit_cache, last, tracking, repo_state, fs,
               current_repository, handles>>

page_size == 10

\* the commits slice of n commits, newest first: the sequence of their ids
ListOf(n) == [k \in 1..n |-> n + 1 - k]

\* commits.iter().position(|c| c.id == id): <<>> or <<the 0-based index>>
position(list, id) ==
    IF \E k \in 1..Len(list) : list[k] = id
    THEN <<(CHOOSE k \in 1..Len(list) :
                list[k] = id /\ \A m \in 1..(k - 1) : list[m] # id) - 1>>
    ELSE <<>>

\* commits[index], index 0-based
At(list, index) == <<list[index + 1]>>

SelectNextWraps(sel, list) ==
    IF sel # <<>>
    THEN LET pos == position(list, sel[1])
         IN IF pos = <<>> THEN sel
            ELSE IF pos[1] + 1 < Len(list) THEN At(list, pos[1] + 1) ELSE At(list, 0)
    ELSE IF list # <<>> THEN At(list, 0) ELSE sel

SelectNext(sel, list) ==
    IF sel # <<>>
    THEN LET pos == position(list, sel[1])
         IN IF pos # <<>> /\ pos[1] + 1 < Len(list) THEN At(list, pos[1] + 1) ELSE sel
    ELSE IF list # <<>> THEN At(list, 0) ELSE sel

SelectPrevious(sel, list) ==
    IF sel # <<>>
    THEN LET pos == position(list, sel[1])
         IN IF pos # <<>> /\ pos[1] > 0 THEN At(list, pos[1] - 1) ELSE sel
    ELSE IF list # <<>> THEN At(list, Len(list) - 1) ELSE sel

SelectFirst(sel, list) == IF list # <<>> THEN At(list, 0) ELSE sel

SelectLast(sel, list) == IF list # <<>> THEN At(list, Len(list) - 1) ELSE sel

SelectPageDown(sel, list) ==
    IF sel # <<>>
    THEN LET pos == position(list, sel[1])
         IN IF pos # <<>> THEN At(list, Min(pos[1] + page_size, Len(list) - 1)) ELSE sel
    ELSE IF list # <<>> THEN At(list, 0) ELSE sel

\* pos.saturating_sub(page_size)
SelectPageUp(sel, list) ==
    IF sel # <<>>
    THEN LET pos == position(list, sel[1])
         IN IF pos # <<>>
            THEN At(list, IF pos[1] > page_size THEN pos[1] - page_size ELSE 0)
            ELSE sel
    ELSE IF list # <<>> THEN At(list, Len(list) - 1) ELSE sel

\* the record of a selection operation: its name and the selection it found
Nav(op) == [op |-> op, pre |-> selected_commit]

select_next ==
    /\ selected_commit' = SelectNext(selected_commit, shown)
    /\ nav' = Nav("select_next")
    /\ UNCHANGED <<offscreen, shown>>

select_previous ==
    /\ selected_commit' = SelectPrevious(selected_commit, shown)
    /\ nav' = Nav("select_previous")
    /\ UNCHANGED <<offscreen, shown>>

select_first ==
    /\ selected_commit' = SelectFirst(selected_commit, shown)
    /\ nav' = Nav("select_first")
    /\ UNCHANGED <<offscreen, shown>>

select_last ==
    /\ selected_commit' = SelectLast(selected_commit, shown)
    /\ nav' = Nav("select_last")
    /\ UNCHANGED <<offscreen, shown>>

select_page_down ==
    /\ selected_commit' = SelectPageDown(selected_commit, shown)
    /\ nav' = Nav("select_page_down")
    /\ UNCHANGED <<offscreen, shown>>

select_page_up ==
    /\ selected_commit' = SelectPageUp(selected_commit, shown)
    /\ nav' = Nav("select_page_up")
    /\ UNCHANGED <<offscreen, shown>>

\* set_selected_commit(Some(id)), for the id of a commit of the list
set_selected_commit(id) ==
    /\ selected_commit' = <<id>>
    /\ nav' = Nav("set_selected_commit")
    /\ UNCHANGED <<offscreen, shown>>

clear_selection ==
    /\ selected_commit' = <<>>
    /\ nav' = Nav("clear_selection")
    /\ UNCHANGED <<offscreen, shown>>

\* the list the component works on from now on: given once, to a component without a
\* selection
show(n) ==
    /\ shown = <<>>
    /\ selected_commit = <<>>
    /\ n > 0
    /\ shown' = ListOf(n)
    /\ nav' = NoNav
    /\ UNCHANGED <<offscreen, selected_commit>>

UiNext ==
    \/ \E n \in 1..MaxListLen : show(n)
    \/ select_next
    \/ select_previous
    \/ select_first
    \/ select_last
    \/ select_page_down
    \/ select_page_up
    \/ \E k \in 1..Len(shown) : set_selected_commit(shown[k])
    \/ clear_selection

UiSpec == Init /\ [][UiNext]_vars

\* ---------------------------------------------- the read-style operations
\* get_current_branch_info: the (current_branch, is_detached) pair, the name as the
\* sequence of the pieces that format! joins; every arm of its match returns Ok
get_current_branch_info ==
    IF head.kind = "sym" /\ refs[head.name] = 0
    THEN [current_branch |-> <<"main">>, is_detached |-> FALSE]
    ELSE IF head.kind = "det"
    THEN [current_branch |-> <<"HEAD detached at ">> \o short_id(head.oid), is_detached |-> TRUE]
    ELSE [current_branch |-> <<head.name>>, is_detached |-> FALSE]

\* refresh_branch_info: assigns the pair to the handle's current_branch and
\* is_detached, recorded in the call's record
refresh_branch_info ==
    /\ Idle
    /\ last' = Call("refresh_branch_info", [ok |-> TRUE, ret |-> <<get_current_branch_info>>])
    /\ UNCHANGED <<nCommits, parents, flaw, refs, head, commits, commit_cache>>
    /\ UNCHANGED aux

\* refresh: refresh_branch_info()? and nothing else
refresh ==
    /\ Idle
    /\ last' = Call("refresh", [ok |-> TRUE, ret |-> <<get_current_branch_info>>])
    /\ UNCHANGED <<nCommits, parents, flaw, refs, head, commits, commit_cache>>
    /\ UNCHANGED aux

get_commit_by_id_call(id) ==
    /\ Idle
    /\ last' = [Call("get_commit_by_id", [ok |-> TRUE, ret |-> get_commit_by_id(id)])
                    EXCEPT !.from = as_str(id)]
    /\ UNCHANGED <<nCommits, parents, flaw, refs, head, commits, commit_cache>>
    /\ UNCHANGED aux

FrameNext ==
    \/ \E second \in {0} \cup Stored, f \in {"ok"} \cup Flaws : ExtCommit(second, f)
    \/ \E h \in Heads : ExtCheckout(h)
    \/ \E limit \in SmallLimits, now \in Stamps : load_commits(limit, now)
    \/ \E start \in Offsets, count \in Offsets, now \in Stamps :
           load_commits_lazy(start, count, now)
    \/ \E branch \in BranchInputs, limit \in SmallLimits, now \in Stamps :
           load_commits_for_branch(branch, limit, now)
    \/ \E from \in HashInputs, to \in HashInputs, limit \in SmallLimits, now \in Stamps :
           load_commits_range(from, to, limit, now)
    \/ \E hash \in HashInputs, now \in Stamps : find_commit_by_hash(hash, now)
    \/ \E query \in Queries : search_commits(query)
    \/ \E id \in Ids : get_commit_by_id_call(id)
    \/ validate
    \/ refresh
    \/ refresh_branch_info
    \/ Return

FrameSpec == Init /\ [][FrameNext]_vars

\* ================================================================ claims
IdsOf(seq) == [k \in 1..Len(seq) |-> seq[k].id]

\* C1: after any sequence of operations every commit of the ordered list has an entry
\* under its id in the cache (get_commit_by_id returns it).
C1_ListEntriesCached ==
    \A k \in 1..Len(commits) : get_commit_by_id(commits[k].id) # <<>>

\* C2: for an unchanged store, a second load_commits(limit) after a successful
\* load_commits(limit) leaves the same ordered list and the same cache size.
C2_ReloadSameList ==
    (last.op = "load_commits" /\ last.ok) =>
        \A t \in Stamps :
            LET again == LoadCommits(last.limit, t, commits, commit_cache)
            IN /\ again.ok
               /\ again.commits = commits
               /\ Cardinality(DOMAIN again.cache) = cache_size

\* the part of C2 that the code keeps: the same identities in the same order, and
\* the same cache size
C2_ReloadSameIds ==
    (last.op = "load_commits" /\ last.ok) =>
        \A t \in Stamps :
            LET again == LoadCommits(last.limit, t, commits, commit_cache)
            IN /\ again.ok
               /\ IdsOf(again.commits) = IdsOf(commits)
               /\ Cardinality(DOMAIN again.cache) = cache_size

\* ancestors of c in the store's commit graph, c excluded
ProperAncestors(c) == Reach(c) \ {c}

\* no commit of seq is preceded by one of its parents, nor by any of its ancestors
ParentsFollow(seq) ==
    \A i \in 1..Len(seq) : \A j \in 1..Len(seq) :
        (\E k \in 1..Len(seq[i].parents) : seq[i].parents[k] = seq[j].id) => j >= i

AncestorsFollow(seq) ==
    \A i \in 1..Len(seq) : \A j \in 1..Len(seq) :
        seq[j].id \in ProperAncestors(seq[i].id) => j > i

Returning == {"load_commits_lazy", "load_commits_for_branch", "load_commits_range"}

\* C3: in the ordered list and in every sequence load_commits_lazy,
\* load_commits_for_branch and load_commits_range return, a parent never precedes
\* its child (an ancestor never precedes its descendant), merges included.
C3_AncestorsNeverPrecede ==
    /\ ParentsFollow(commits) /\ AncestorsFollow(commits)
    /\ (last.op \in Returning /\ last.ok) =>
           (ParentsFollow(last.ret) /\ AncestorsFollow(last.ret))

\* reached: a merge commit whose first parent carries a commit time older than the
\* second parent's, all three loaded, and a range that returned the merge and a parent
C3_Witness ==
    /\ last.op = "load_commits_range" /\ last.ok /\ Len(last.ret) = 2
    /\ Len(commits) = 3
    /\ \E i \in 1..3 : /\ Len(commits[i].parents) = 2
                       /\ flaw[commits[i].parents[1]] = "skew"

\* the identities a walk from head yields, when head resolves and the walker
\* raises no error
HeadWalkable == PushOk(HeadOid) /\ ~Revwalk(HeadOid, 0).err

HeadWalk == Revwalk(HeadOid, 0).oids

Prefix(seq, n) == SubSeq(seq, 1, Min(n, Len(seq)))

Parseable(c) == FindCommitOk(c)

\* the bound a caller asks for: `limit`, 1000 when none is given
Bound(limit) == IF limit = <<>> THEN DefaultLimit ELSE limit[1]

\* what the claims expect of a bounded load: the parseable commits among the first
\* `max` identities of the walk, in walk order
ExpectedLoad(max) == SelectSeq(Prefix(HeadWalk, max), Parseable)

FreshStore == nCommits = 0 /\ head = MainHead

\* C5: on a freshly initialized store with zero commits is_empty() is true,
\* load_commits(limit) succeeds for every limit and leaves the ordered list empty,
\* commit_count() is 0 and get_branch_info() succeeds with state Unborn.
C5_EmptyStore ==
    FreshStore =>
        /\ is_empty
        /\ commit_count = 0
        /\ get_branch_info.ok /\ get_branch_info.state = "Unborn"
        /\ \A limit \in Limits : LET r == LoadCommits(limit, 0, commits, commit_cache)
                                 IN r.ok /\ r.commits = <<>>
        /\ last.op = "load_commits" => (last.ok /\ commits = <<>>)

\* reached: load_commits(Some(2)) has returned on the freshly initialized store
C5_Witness == FreshStore /\ last.op = "load_commits" /\ last.limit = <<2>> /\ last.ok

\* C6: on an empty store load_commits, refresh_commits and load_commits_lazy(start,
\* count) all succeed and yield zero commits.
C6_EmptyStoreNeverFails ==
    (IsEmpty /\ last.op \in {"load_commits", "refresh_commits", "load_commits_lazy"}) =>
        (last.ok /\ last.ret = <<>> /\ commits = <<>>)

\* the parseable commits among the identities visited, and the unparseable ones
Unparseable(seq) == {k \in 1..Len(seq) : ~Parseable(seq[k])}

Visited(limit) == Prefix(HeadWalk, Bound(limit))

\* C7: when the identities load_commits visits are N parseable commits and one
\* unparseable object, load_commits succeeds and the ordered list holds exactly those
\* N commits in traversal order.
C7_OneUnparseableSkipped ==
    (/\ last.op = "load_commits" /\ ~IsEmpty /\ HeadWalkable
     /\ Cardinality(Unparseable(Visited(last.limit))) = 1) =>
        /\ last.ok
        /\ Len(commits) = Len(Visited(last.limit)) - 1
        /\ IdsOf(commits) = SelectSeq(Visited(last.limit), Parseable)

\* reached: three identities visited, the middle one unparseable, two commits loaded
C7_Witness ==
    /\ last.op = "load_commits" /\ last.ok /\ ~IsEmpty /\ HeadWalkable
    /\ Len(Visited(last.limit)) = 3
    /\ Unparseable(Visited(last.limit)) = {2}
    /\ Len(commits) = 2

\* the window of identities each of the other traversal modes visits, when its walk
\* can be set up and raises no error: <<TRUE, identities>>, else <<FALSE, <<>>>>
WindowOf(call) ==
    IF call.op = "load_commits_lazy"
    THEN IF call.start >= Len(call.pre_commits) /\ HeadWalkable
         THEN <<TRUE, SubSeq(HeadWalk, call.start + 1,
                             Min(call.start + call.count, Len(HeadWalk)))>>
         ELSE <<FALSE, <<>>>>
    ELSE IF call.op = "load_commits_for_branch"
    THEN IF call.branch \in Branches /\ PushOk(refs[call.branch])
            /\ ~Revwalk(refs[call.branch], 0).err
         THEN <<TRUE, Prefix(Revwalk(refs[call.branch], 0).oids, Bound(call.limit))>>
         ELSE <<FALSE, <<>>>>
    ELSE IF call.op = "load_commits_range"
    THEN LET f == from_str(call.from)
             g == from_str(call.to)
         IN IF f.ok /\ g.ok /\ PushOk(f.oid) /\ PushOk(g.oid) /\ ~Revwalk(g.oid, f.oid).err
            THEN <<TRUE, Prefix(Revwalk(g.oid, f.oid).oids, Bound(call.limit))>>
            ELSE <<FALSE, <<>>>>
    ELSE <<FALSE, <<>>>>

\* C8: in load_commits_lazy (fresh-traversal path), load_commits_for_branch and
\* load_commits_range an unparseable commit met during the walk is skipped and the
\* operation still succeeds, returning the remaining parseable commits of the window.
C8_OtherModesSkipUnparseable ==
    (last.op \in Returning /\ WindowOf(last)[1]) =>
        (last.ok /\ IdsOf(last.ret) = SelectSeq(WindowOf(last)[2], Parseable))

\* the part of C8 the code keeps: a window with no unparseable commit is returned whole
C8_SoundWindowReturned ==
    (last.op \in Returning /\ WindowOf(last)[1] /\ Unparseable(WindowOf(last)[2]) = {}) =>
        (last.ok /\ IdsOf(last.ret) = WindowOf(last)[2])

\* an identity string that names a commit of the store
Names(s, c) == c \in Stored /\ Readable(c) /\ s = as_str(c)

Resolves(s) == \E c \in Stored : Names(s, c)

Named(s) == CHOOSE c \in Stored : Names(s, c)

RangeSet(from, to) == Reach(Named(to)) \ Reach(Named(from))

\* C9: for endpoints that both resolve, load_commits_range(from, to, limit) returns
\* exactly the commits reachable from `to` and not from `from` (when there are at most
\* `limit` of them); never `from`; and `to` when `from` is a proper ancestor of `to`.
C9_RangeExact ==
    (/\ last.op = "load_commits_range" /\ Resolves(last.from) /\ Resolves(last.to)
     /\ Cardinality(RangeSet(last.from, last.to)) <= Bound(last.limit)) =>
        /\ last.ok
        /\ {last.ret[k].id : k \in 1..Len(last.ret)} = RangeSet(last.from, last.to)
        /\ Len(last.ret) = Cardinality(RangeSet(last.from, last.to))
        /\ \A k \in 1..Len(last.ret) : last.ret[k].id # Named(last.from)
        /\ Named(last.from) \in ProperAncestors(Named(last.to)) =>
               \E k \in 1..Len(last.ret) : last.ret[k].id = Named(last.to)

\* the part of C9 the code keeps: the same, when every commit of the range is in the
\* object database and parseable
C9_RangeExactWhenSound ==
    (/\ last.op = "load_commits_range" /\ Resolves(last.from) /\ Resolves(last.to)
     /\ Cardinality(RangeSet(last.from, last.to)) <= Bound(last.limit)
     /\ \A c \in RangeSet(last.from, last.to) : Parseable(c)) =>
        /\ last.ok
        /\ {last.ret[k].id : k \in 1..Len(last.ret)} = RangeSet(last.from, last.to)
        /\ Len(last.ret) = Cardinality(RangeSet(last.from, last.to))
        /\ \A k \in 1..Len(last.ret) : last.ret[k].id # Named(last.from)
        /\ Named(last.from) \in ProperAncestors(Named(last.to)) =>
               \E k \in 1..Len(last.ret) : last.ret[k].id = Named(last.to)

\* a well-formed identity string: one to OidHexLen hex digits
WellFormed(s) == Len(s) \in 1..OidHexLen /\ \A k \in 1..Len(s) : IsHex(s[k])

BadEndpoint(s) == ~WellFormed(s) \/ ~Resolves(s)

\* C10: load_commits_range(from, to, limit) returns an error and no commits whenever
\* `from` or `to` is not a well-formed identity string or does not resolve to a commit
\* of the store, and the failed call leaves the ordered list and the cache unchanged.
C10_RangeBadEndpoint ==
    (last.op = "load_commits_range" /\ (BadEndpoint(last.from) \/ BadEndpoint(last.to))) =>
        /\ ~last.ok
        /\ last.ret = <<>>
        /\ commits = last.pre_commits
        /\ commit_cache = last.pre_cache

\* reached: a range whose upper endpoint resolves and whose lower endpoint is well-formed
\* but names no object, called with commits loaded and cached
C10_Witness ==
    /\ last.op = "load_commits_range" /\ ~last.ok
    /\ Resolves(last.to) /\ WellFormed(last.from) /\ ~Resolves(last.from)
    /\ Len(commits) = 2 /\ cache_size = 2

\* a local branch of that name exists in the store
BranchExists(b) == b \in Branches /\ refs[b] # 0

\* C11: load_commits_for_branch(name, limit) walks from the tip of the local branch
\* `name`, wherever head points: what it returns starts at that tip, holds at most
\* `limit` commits and only commits reachable from the tip; when no local branch
\* `name` exists it returns an error and leaves the ordered list and the cache unchanged.
C11_BranchLoad ==
    last.op = "load_commits_for_branch" =>
        /\ (BranchExists(last.branch) /\ last.ok) =>
               /\ Len(last.ret) <= Bound(last.limit)
               /\ \A k \in 1..Len(last.ret) : last.ret[k].id \in Reach(refs[last.branch])
               /\ Len(last.ret) > 0 => last.ret[1].id = refs[last.branch]
        /\ ~BranchExists(last.branch) =>
               /\ ~last.ok /\ last.ret = <<>>
               /\ commits = last.pre_commits /\ commit_cache = last.pre_cache

\* reached: head on another branch whose tip is not in main's history, and the two
\* commits of main returned
C11_Witness ==
    /\ last.op = "load_commits_for_branch" /\ last.ok /\ last.branch = "main"
    /\ head.kind = "sym" /\ head.name = "dev" /\ refs["dev"] # 0
    /\ refs["dev"] \notin Reach(refs["main"])
    /\ Len(last.ret) = 2

Traversals == {"load_commits", "refresh_commits", "load_commits_lazy",
               "load_commits_for_branch", "load_commits_range"}

\* C12: whenever a traversal operation (load_commits, refresh_commits,
\* load_commits_lazy, load_commits_for_branch, load_commits_range) returns an error,
\* also one raised part-way through the walk, the ordered list and the cache equal
\* their values immediately before the call.
C12_ErrorLeavesLastGood ==
    (last.op \in Traversals /\ ~last.ok) =>
        (commits = last.pre_commits /\ commit_cache = last.pre_cache)

\* the part of C12 the code keeps: a failed load_commits, load_commits_lazy,
\* load_commits_for_branch or load_commits_range leaves the ordered list as it was
C12_ErrorKeepsListUnlessRefresh ==
    (last.op \in Traversals \ {"refresh_commits"} /\ ~last.ok) =>
        commits = last.pre_commits

\* what load_commits_lazy(start, count) is to return: the slice of the ordered list
\* when `start` falls within it, else positions start .. start+count-1 of a fresh
\* traversal from head (the empty walk when head is unborn)
FreshWalk == IF HeadOid = 0 THEN <<>> ELSE HeadWalk

Slice(seq, start, count) == SubSeq(seq, start + 1, Min(start + count, Len(seq)))

\* C13: load_commits_lazy(start, count): if start is less than the length of the
\* ordered list the result is exactly ordered_list[start .. min(start+count, length)]
\* and the store is not walked (nothing is parsed into the cache); otherwise the result
\* is the commits at positions start .. start+count-1 of a fresh traversal from head,
\* fewer only when the history ends.
C13_LazyWindow ==
    last.op = "load_commits_lazy" =>
        IF last.start < Len(last.pre_commits)
        THEN /\ last.ok
             /\ last.ret = Slice(last.pre_commits, last.start, last.count)
             /\ commit_cache = last.pre_cache
        ELSE (HeadOid = 0 \/ HeadWalkable) =>
                 /\ last.ok
                 /\ IdsOf(last.ret) = Slice(FreshWalk, last.start, last.count)

\* the part of C13 the code keeps: the same, when head resolves to a commit and every
\* commit of the window can be parsed
C13_LazyWindowWhenSound ==
    last.op = "load_commits_lazy" =>
        IF last.start < Len(last.pre_commits)
        THEN /\ last.ok
             /\ last.ret = Slice(last.pre_commits, last.start, last.count)
             /\ commit_cache = last.pre_cache
        ELSE (/\ HeadWalkable
              /\ Unparseable(Slice(HeadWalk, last.start, last.count)) = {}) =>
                 /\ last.ok
                 /\ IdsOf(last.ret) = Slice(HeadWalk, last.start, last.count)

\* the commits a successful traversal yields: the new ordered list for load_commits
\* and refresh_commits, the returned sequence for the other modes
Yielded == IF last.op \in {"load_commits", "refresh_commits"} THEN commits ELSE last.ret

\* the call walked the store (load_commits_lazy serving a slice does not)
Walked ==
    /\ last.op \in Traversals /\ last.ok
    /\ last.op = "load_commits_lazy" => last.start >= Len(last.pre_commits)

\* C14: in every traversal mode, load_commits included, a visited commit whose id was
\* already in the cache is taken from the cache (the commit yielded is the cached one,
\* not a new parse), and a visited commit that was not cached is in the cache by the
\* time the operation yields it.
C14_CacheConsulted ==
    Walked =>
        \A k \in 1..Len(Yielded) :
            LET c == Yielded[k]
            IN /\ c.id \in DOMAIN last.pre_cache => c = last.pre_cache[c.id]
               /\ c.id \in DOMAIN commit_cache /\ commit_cache[c.id] = c

\* the part of C14 the code keeps: load_commits_lazy, load_commits_for_branch and
\* load_commits_range reuse a cached commit, and every mode caches what it yields
C14_CacheConsultedByWindowModes ==
    Walked =>
        \A k \in 1..Len(Yielded) :
            LET c == Yielded[k]
            IN /\ (last.op \in Returning /\ c.id \in DOMAIN last.pre_cache) =>
                      c = last.pre_cache[c.id]
               /\ c.id \in DOMAIN commit_cache /\ commit_cache[c.id] = c

\* the texts of a commit that a search looks into
TextOf(commit) == {commit.message, commit.summary,
                   Chars(commit.author.name), Chars(commit.author.email)}

InText(commit, query) ==
    \E txt \in TextOf(commit) : contains(to_lowercase(txt), to_lowercase(query))

InList(commit) == \E k \in 1..Len(commits) : commits[k] = commit

\* C15 as stated: search_commits(query) returns exactly, and in ordered-list order,
\* the commits of the current ordered list whose message, summary, author name or
\* author email contains the query ignoring letter case, or whose canonical id string
\* starts with the query; never a commit that is only in the cache or only in the store.
C15_SearchExact_IdPrefixAsTyped ==
    last.op = "search_commits" =>
        LET Hit(commit) == InText(commit, last.from)
                               \/ starts_with(as_str(commit.id), last.from)
        IN /\ last.ret = SelectSeq(commits, Hit)
           /\ \A k \in 1..Len(last.ret) : InList(last.ret[k])

\* C15 (amended): the same, the identity prefix being compared with the query in
\* lower case.
C15_SearchExact ==
    last.op = "search_commits" =>
        LET Hit(commit) == InText(commit, last.from)
                               \/ starts_with(as_str(commit.id), to_lowercase(last.from))
        IN /\ last.ret = SelectSeq(commits, Hit)
           /\ \A k \in 1..Len(last.ret) : InList(last.ret[k])

\* reached: a search for "FIX" over a list of two commits returned the one whose
\* message holds "fix", while the cache holds a third commit, not in the list, whose
\* message holds "Fix"
C15_Witness ==
    /\ last.op = "search_commits" /\ last.from = <<"F", "I", "X">>
    /\ Len(commits) = 2 /\ Len(last.ret) = 1 /\ last.ret[1].id = 2
    /\ 1 \in DOMAIN commit_cache /\ \A k \in 1..2 : commits[k].id # 1

\* C16: after the store's head has moved, refresh_commits(limit) clears the ordered
\* list and re-runs the bounded load: on success the ordered list equals a fresh
\* bounded load from the new head and holds no commit of the old list that is
\* unreachable from the new head.
C16_RefreshReloads ==
    (last.op = "refresh_commits" /\ last.ok) =>
        /\ \E t \in Stamps :
               LET fresh == LoadCommits(last.limit, t, <<>>, last.pre_cache)
               IN fresh.ok /\ commits = fresh.commits
        /\ HeadWalkable => IdsOf(commits) = ExpectedLoad(Bound(last.limit))
        /\ \A k \in 1..Len(commits) : commits[k].id \in Reach(HeadOid)
        /\ \A k \in 1..Len(last.pre_commits) :
               last.pre_commits[k].id \notin Reach(HeadOid) => ~InList(last.pre_commits[k])

\* reached: the old list held a commit that the new head does not reach, and the
\* refresh left a non-empty list
C16_Witness ==
    /\ last.op = "refresh_commits" /\ last.ok
    /\ \E k \in 1..Len(last.pre_commits) : last.pre_commits[k].id \notin Reach(HeadOid)
    /\ Len(commits) >= 1

\* `path` and the directories above it
RECURSIVE SelfAndAncestors(_)
SelfAndAncestors(p) == IF p = "" THEN {} ELSE {p} \cup SelfAndAncestors(Parent(p))

\* C17: detect(path) returns a repository handle exactly when `path` itself or one of
\* its ancestor directories contains a store; when `path` does not exist or no store is
\* found in the ancestor chain it returns not-found (Ok(None)), not an error.
C17_DetectSearchesAncestors ==
    last.op = "detect" =>
        /\ last.ok
        /\ last.ret # <<>> <=>
               (last.path \in fs.exists /\ \E d \in SelfAndAncestors(last.path) : d \in fs.stores)

\* the part of C17 the code keeps: a handle exactly when `path` itself holds a store,
\* and never an error
C17_DetectAtPathOnly ==
    last.op = "detect" =>
        /\ last.ok
        /\ last.ret # <<>> <=> (last.path \in fs.exists /\ last.path \in fs.stores)

\* the store states that denote an operation in progress
InProgress == repo_state # "Clean"

\* C18: validate() returns InOperation(name), never Healthy and never Unknown, for
\* every store state that denotes an in-progress merge, rebase (plain, interactive,
\* merge-based), cherry-pick, revert (single or multi-commit sequence), bisect or
\* mailbox apply, and returns Healthy for a clean store and for an empty store.
C18_ValidateNamesOperation ==
    last.op = "validate" =>
        /\ last.ok
        /\ InProgress => last.ret[1].kind = "InOperation"
        /\ ~InProgress => last.ret[1] = Healthy
        /\ nCommits = 0 => last.ret[1] = Healthy

\* the part of C18 the code keeps: the same, the multi-commit revert and cherry-pick
\* sequences left out
C18_ValidateNamesOperationButSequences ==
    last.op = "validate" =>
        /\ last.ok
        /\ (InProgress /\ repo_state \notin {"RevertSequence", "CherryPickSequence"}) =>
               last.ret[1].kind = "InOperation"
        /\ ~InProgress => last.ret[1] = Healthy
        /\ nCommits = 0 => last.ret[1] = Healthy

\* head names a branch that has no commit yet
HeadUnborn == head.kind = "sym" /\ refs[head.name] = 0

HeadDetached == head.kind = "det"

\* C19: get_branch_info() returns state Unborn exactly when head is unborn,
\* DetachedHead exactly when head points directly at a commit, and Normal otherwise;
\* in the Unborn and DetachedHead states ahead = behind = 0 and upstream is none, the
\* call is not an error, and the DetachedHead name contains the 7-character short form
\* of the head commit id.
C19_BranchStates ==
    last.op = "get_branch_info" =>
        /\ last.ok
        /\ LET info == last.ret[1]
           IN /\ info.state = "Unborn" <=> HeadUnborn
              /\ info.state = "DetachedHead" <=> HeadDetached
              /\ info.state = "Normal" <=> (~HeadUnborn /\ ~HeadDetached)
              /\ info.state \in {"Unborn", "DetachedHead"} =>
                     (info.ahead = 0 /\ info.behind = 0 /\ info.upstream = <<>>)
              /\ info.state = "DetachedHead" =>
                     contains(info.name, SubSeq(as_str(head.oid), 1, 7))

\* reached: the branch information of a detached head, and that of an unborn branch,
\* in a store where the branch main has an upstream that it is behind of
C19_Witness ==
    /\ last.op = "get_branch_info" /\ last.ok
    /\ last.ret[1].state \in {"DetachedHead", "Unborn"}
    /\ HasUpstream("main") /\ tracking["main"][1] \notin Reach(refs["main"])

\* the commits of a's history that are not in b's
OnlyIn(a, b) == {c \in Stored : c \in Reach(a) /\ c \notin Reach(b)}

\* every commit of both histories can be read
HistoriesReadable(a, b) == \A c \in Reach(a) \cup Reach(b) : Readable(c)

\* C20: for a Normal branch with an upstream, get_branch_info() reports ahead = the
\* number of commits reachable from the local tip and not from the upstream tip, and
\* behind = the number reachable from the upstream tip and not from the local tip; when
\* no upstream is configured or the graph computation fails it still succeeds and
\* reports ahead = behind = 0.
C20_AheadBehind ==
    (last.op = "get_branch_info" /\ ~HeadUnborn /\ ~HeadDetached) =>
        /\ last.ok
        /\ LET info == last.ret[1]
               local == refs[head.name]
           IN IF HasUpstream(head.name) /\ HistoriesReadable(local, tracking[head.name][1])
              THEN /\ info.upstream # <<>>
                   /\ info.ahead = Cardinality(OnlyIn(local, tracking[head.name][1]))
                   /\ info.behind = Cardinality(OnlyIn(tracking[head.name][1], local))
              ELSE info.ahead = 0 /\ info.behind = 0

\* reached: a branch two commits ahead of its upstream and one behind
C20_Witness ==
    /\ last.op = "get_branch_info" /\ last.ok
    /\ last.ret[1].state = "Normal"
    /\ last.ret[1].ahead = 2 /\ last.ret[1].behind = 1

\* reached: the graph computation fails on an upstream tip missing from the object
\* database, and the branch information is returned with both counts 0
C20_WitnessGraphFails ==
    /\ last.op = "get_branch_info" /\ last.ok
    /\ last.ret[1].state = "Normal" /\ last.ret[1].upstream # <<>>
    /\ ~HistoriesReadable(refs[head.name], tracking[head.name][1])

\* the identities held by the ordered list or the cache
HeldIds == {commits[k].id : k \in 1..Len(commits)} \cup DOMAIN commit_cache

\* C21: for every CommitId held in the ordered list or the cache after a successful
\* load, parsing its canonical string form yields the same CommitId, so that
\* find_commit_by_hash(id.as_str()) returns the cached commit with that id; and short()
\* is exactly the first 7 characters of as_str().
C21_IdRoundTrip ==
    /\ (last.op \in Traversals /\ last.ok) =>
           \A id \in HeldIds :
               LET str == as_str(id)
                   parsed == from_str(str)
                   abbrev == short(id)
               IN /\ parsed.ok /\ parsed.oid = id
                  /\ abbrev = SubSeq(str, 1, 7)
                  /\ id \in DOMAIN commit_cache =>
                         FindCommitByHash(str, 0, commit_cache)
                             = [ok |-> TRUE, ret |-> <<commit_cache[id]>>]
    /\ last.op = "find_commit_by_hash" =>
           \A id \in DOMAIN commit_cache :
               last.from = as_str(id) => (last.ok /\ last.ret = <<commit_cache[id]>>)

\* reached: find_commit_by_hash called with the string form of the second of three
\* cached identities
C21_Witness ==
    /\ last.op = "find_commit_by_hash" /\ last.ok
    /\ cache_size = 3 /\ Len(commits) = 3
    /\ last.from = as_str(2) /\ last.ret # <<>> /\ last.ret[1].id = 2

\* every error value of the model
ErrorValues == {TwiggyError(kind, text) : kind \in ErrorKinds, text \in ErrorTexts \cup {"unknown"}}

\* C22: every error value carries a numeric code that depends only on its kind, with
\* distinct kinds mapped to distinct codes (Git 1000, Io 2000, Config 3000, ...), a
\* recoverability flag that is false exactly for the Git and Application kinds, and a
\* suggested action; an error propagated unchanged through callers keeps the same code.
C22_ErrorCodes ==
    last.op = "error" =>
        LET e == last.ret[1]
        IN /\ \A other \in ErrorValues :
                  (other.kind = e.kind) <=> (error_code(other) = error_code(e))
           /\ e.kind = "Git" => error_code(e) = 1000
           /\ e.kind = "Io" => error_code(e) = 2000
           /\ e.kind = "Config" => error_code(e) = 3000
           /\ is_recoverable(e) <=> e.kind \notin {"Git", "Application"}
           /\ suggested_action(e) # <<>>
           /\ error_code(e) = last.raised_code

\* reached: a FileSystem error that has been propagated through two callers
C22_Witness ==
    /\ last.op = "error" /\ last.frames = 2
    /\ last.ret[1].kind = "FileSystem"

\* C23: the result of each validate() call is a function of the store's operation
\* state at the time of that call only: after an external process starts an operation
\* the next validate() returns InOperation, and after the operation completes or is
\* aborted the next validate() returns Healthy, whatever earlier validate() calls
\* returned and whatever loads were performed in between.
C23_NextValidateFollowsStore ==
    [][(last.op # "validate" /\ last'.op = "validate") =>
           /\ last'.ok
           /\ IF repo_state' = "Clean" THEN last'.ret[1] = Healthy
              ELSE last'.ret[1].kind = "InOperation"]_vars

\* the part of C23 the code keeps: the same, the multi-commit revert and cherry-pick
\* sequences left out
C23_NextValidateFollowsStoreButSequences ==
    [][(last.op # "validate" /\ last'.op = "validate") =>
           /\ last'.ok
           /\ IF repo_state' = "Clean" THEN last'.ret[1] = Healthy
              ELSE IF repo_state' \in {"RevertSequence", "CherryPickSequence"}
              THEN last'.ret[1] = Unknown
              ELSE last'.ret[1].kind = "InOperation"]_vars

\* a store-level integrity failure: an object of the history is damaged or missing
\* from the object database
Damaged == \E c \in Stored : flaw[c] \in {"corrupt", "missing"}

\* C24: when the store suffers a store-level integrity failure validate() reports
\* Corrupted, and keeps reporting Corrupted on every later call until the store is
\* repaired; it never reports Healthy or InOperation for a store in that condition.
C24_CorruptedReported ==
    (last.op = "validate" /\ Damaged) =>
        (last.ok /\ last.ret[1].kind = "Corrupted")

\* what the code does: validate() never reports Corrupted, whatever the store
C24_CorruptedNeverReported ==
    last.op = "validate" => (last.ok /\ last.ret[1].kind # "Corrupted")

\* the ordered list was loaded from another head than the present one: its first
\* commit is not the commit head resolves to, which can be read and parsed
Stale(list) == list # <<>> /\ Parseable(HeadOid) /\ list[1].id # HeadOid

\* C25: after the head has moved and no refresh has been run, load_commits_lazy(start,
\* count) with start inside the old ordered list succeeds and returns entries of the
\* old list, whereas a call with start at or beyond the old list's length returns
\* positions of the traversal from the new head; neither case is reported as an error.
C25_StaleOffsets ==
    (last.op = "load_commits_lazy" /\ Stale(last.pre_commits)) =>
        IF last.start < Len(last.pre_commits)
        THEN last.ok /\ last.ret = Slice(last.pre_commits, last.start, last.count)
        ELSE HeadWalkable =>
                 (last.ok /\ IdsOf(last.ret) = Slice(HeadWalk, last.start, last.count))

\* the part of C25 the code keeps: the same, when every commit of the window of the new
\* traversal can be parsed
C25_StaleOffsetsWhenSound ==
    (last.op = "load_commits_lazy" /\ Stale(last.pre_commits)) =>
        IF last.start < Len(last.pre_commits)
        THEN last.ok /\ last.ret = Slice(last.pre_commits, last.start, last.count)
        ELSE (HeadWalkable /\ Unparseable(Slice(HeadWalk, last.start, last.count)) = {}) =>
                 (last.ok /\ IdsOf(last.ret) = Slice(HeadWalk, last.start, last.count))

\* C26: at no point during any sequence of detect, open, open_repository_path and
\* close_repository do two live native store handles for the same path exist at the
\* same time.
C26_OneHandlePerPath == \A p \in Paths : handles.live[p] <= 1

\* the part of C26 the code keeps: between two operations no path has two live handles
C26_OneHandlePerPathBetweenCalls ==
    handles.pc \in {"idle", "held"} => \A p \in Paths : handles.live[p] <= 1

\* the ids that have a cache entry before and after a step
StillCached == DOMAIN commit_cache \cap DOMAIN commit_cache'

\* C27: for an unchanged store, once a commit id has an entry in the cache, the Commit
\* value stored under that id is never replaced by a different value by any later
\* load, also for commits whose author or committer signature is unrecoverable and
\* is substituted by the Unknown placeholder.
C27_CacheValuesStable ==
    [][store' = store => \A id \in StillCached : commit_cache'[id] = commit_cache[id]]_vars

\* the part of C27 the code keeps: the entries of commits whose two signatures can be
\* read are never replaced by a different value
C27_CacheValuesStableWithSignatures ==
    [][store' = store =>
          \A id \in StillCached :
              flaw[id] \notin {"badauthor", "badcommitter"} =>
                  commit_cache'[id] = commit_cache[id]]_vars

NavOps == {"select_next", "select_previous", "select_first", "select_last",
           "select_page_down", "select_page_up"}

\* C28: for a fixed commit list, after any sequence of the six selection operations
\* starting from no selection or a selection in the list, the selected commit is none
\* or a member of the list; select_next on the last commit and select_previous on the
\* first commit leave the selection unchanged; on an empty list every one of these
\* operations leaves the selection none.
C28_SelectionInList ==
    /\ selected_commit = <<>> \/ \E k \in 1..Len(shown) : shown[k] = selected_commit[1]
    /\ (nav.op = "select_next" /\ nav.pre # <<>> /\ nav.pre[1] = shown[Len(shown)])
           => selected_commit = nav.pre
    /\ (nav.op = "select_previous" /\ nav.pre # <<>> /\ nav.pre[1] = shown[1])
           => selected_commit = nav.pre
    /\ (shown = <<>> /\ nav.op \in NavOps) => selected_commit = <<>>

\* select_next was pressed on the last commit of a list longer than a page
C28_Witness ==
    /\ Len(shown) > page_size
    /\ nav.op = "select_next"
    /\ nav.pre = <<shown[Len(shown)]>>

\* a page down from within the last page of a list longer than a page ended on the
\* last commit
C28_WitnessPageClamped ==
    /\ Len(shown) > page_size
    /\ nav.op = "select_page_down"
    /\ nav.pre # <<>> /\ nav.pre[1] # shown[Len(shown)]
    /\ position(shown, nav.pre[1])[1] + page_size > Len(shown) - 1
    /\ selected_commit = <<shown[Len(shown)]>>

\* an operation was applied to the empty list
C28_WitnessEmpty == shown = <<>> /\ nav.op \in NavOps

ReadOps == {"get_commit_by_id", "search_commits", "validate", "refresh",
            "refresh_branch_info", "find_commit_by_hash"}

WindowOps == {"load_commits_lazy", "load_commits_for_branch", "load_commits_range"}

\* every entry of cache `old` is in the cache, with the same value
OnlyAdds(old) ==
    /\ DOMAIN old \subseteq DOMAIN commit_cache
    /\ \A id \in DOMAIN old : commit_cache[id] = old[id]

\* C29: get_commit_by_id, search_commits, validate, refresh, refresh_branch_info and
\* find_commit_by_hash modify neither the ordered list nor the cache (find_commit_by_hash
\* on a cache miss returns the parsed commit without caching it); load_commits_lazy,
\* load_commits_for_branch and load_commits_range never modify the ordered list and
\* change the cache only by adding entries.
C29_ReadOpsFrame ==
    /\ last.op \in ReadOps => (commits = last.pre_commits /\ commit_cache = last.pre_cache)
    /\ last.op \in WindowOps => (commits = last.pre_commits /\ OnlyAdds(last.pre_cache))

\* find_commit_by_hash returned a commit that was not cached, and it is still not cached
C29_Witness ==
    /\ last.op = "find_commit_by_hash"
    /\ last.ok /\ last.ret # <<>>
    /\ last.ret[1].id \notin DOMAIN last.pre_cache
    /\ last.ret[1].id \notin DOMAIN commit_cache

\* a window mode added an entry to a cache that was not empty, next to a loaded list
C29_WitnessWindowAdds ==
    /\ last.op \in WindowOps
    /\ last.pre_commits # <<>>
    /\ last.pre_cache # EmptyCache
    /\ DOMAIN commit_cache # DOMAIN last.pre_cache

\* the list is what load_commits leaves for the present store and head: the parseable
\* commits among the first n of the traversal from head, for some n
ListFromHead(list) ==
    \E n \in 0..Len(HeadWalk) : IdsOf(list) = SelectSeq(Prefix(HeadWalk, n), Parseable)

\* C30: for an unchanged store, load_commits_lazy(start, count) returns the same page,
\* the commits at positions start .. start+count-1 of the traversal from head,
\* shortened only where the history ends, whichever path serves it: regardless of how
\* many commits the ordered list holds and of whether an unparseable commit was
\* skipped when that list was loaded. (`fresh` is the outcome of the call when the
\* ordered list is empty and the page is served by the traversal.)
C30_SamePage ==
    (last.op = "load_commits_lazy" /\ HeadWalkable /\ ListFromHead(last.pre_commits)) =>
        LET fresh == LoadCommitsLazy(last.start, last.count, 0, <<>>, EmptyCache)
        IN /\ last.ok = fresh.ok
           /\ last.ok => IdsOf(last.ret) = Slice(HeadWalk, last.start, last.count)

\* the part of C30 the code keeps: the same page, when every commit of the traversal
\* can be parsed and the page does not reach beyond a list shorter than the history
C30_SamePageWithinList ==
    (/\ last.op = "load_commits_lazy" /\ HeadWalkable /\ ListFromHead(last.pre_commits)
     /\ Unparseable(HeadWalk) = {}
     /\ \/ last.start >= Len(last.pre_commits)
        \/ last.start + last.count <= Len(last.pre_commits)
        \/ Len(last.pre_commits) = Len(HeadWalk)) =>
        (last.ok /\ IdsOf(last.ret) = Slice(HeadWalk, last.start, last.count))

====
